---- MODULE Spec2Model ----
(***************************************************************************)
(* A model of audiotools/data/datasets.py:                                 *)
(*   - BaseDataset: attribute reads and writes of the names in SHARED_KEYS *)
(*     go to a Manager().dict() that every pickled copy of the dataset     *)
(*     references; every other name lives in the copy's own __dict__.      *)
(*   - ResumableSequentialSampler / ResumableDistributedSampler: generator *)
(*     __iter__ that skips the first start_idx positions of the base       *)
(*     sampler's order and sets start_idx to 0 when it is exhausted.       *)
(***************************************************************************)
EXTENDS Integers, Sequences, FiniteSets, TLC

VARIABLES
    shared,     \* the Manager().dict() objects created so far: Seq of (key -> value)
    objs,       \* the dataset objects (originals and pickled copies): Seq of __dict__
    last,       \* the last dataset operation: [op, obj, name, res, kw]
    lastSet,    \* history: per store, the value last stored under each key by __init__ or a write
    own,        \* history: per object, the value it last wrote (or was pickled with) per local name
    cfg,        \* the sampler job: variant, dataset size, num_replicas, drop_last, start_idx argument
    perm,       \* the permutation the base DistributedSampler draws (seed and epoch are fixed: set_epoch is never called)
    start_idx,  \* rank -> self.start_idx of that replica's sampler (constructed ranks only)
    its,        \* the generator objects returned by iter(sampler), in creation order
    serr        \* the exception raised by the last sampler operation ("none" when it returned)

dvars == <<shared, objs, last, lastSet, own>>
svars == <<cfg, perm, start_idx, its, serr>>
vars == <<shared, objs, last, lastSet, own, cfg, perm, start_idx, its, serr>>

(***************************************************************************)
(* Bounds of the model.                                                    *)
(***************************************************************************)
MaxVal == 2         \* attribute values are 1..MaxVal
MaxObjs == 2        \* dataset objects alive at once, copies included
MaxStores == 2      \* BaseDataset.__init__ calls, each creating one Manager().dict()
MaxN == 3           \* len(dataset) handed to a sampler is 0..MaxN
MaxReplicas == 2    \* num_replicas of the distributed sampler is 1..MaxReplicas
MaxIters == 2       \* generator objects obtained from iter(sampler), all replicas together
MaxSkew == 1        \* start_idx arguments range over -MaxSkew..N+MaxSkew

Values == 1..MaxVal

(***************************************************************************)
(* BaseDataset                                                             *)
(***************************************************************************)
SHARED_KEYS == {"duration", "transform", "sample_rate"}

\* Non-shared instance attributes the model reads and writes. "length" is set
\* by __init__, "mono" only by a later write (CSVDataset sets it after
\* super().__init__), so a read of it on a fresh BaseDataset finds nothing.
LocalNames == {"length", "mono"}
AttrNames == SHARED_KEYS \cup LocalNames

\* Keyword names a caller passes to __init__: the shared keys and one other.
KwNames == SHARED_KEYS \cup {"mono"}

EmptyDict == [k \in {} |-> 0]

\* d[k] = v on a Python dict.
SetItem(d, k, v) == [x \in (DOMAIN d) \cup {k} |-> IF x = k THEN v ELSE d[x]]

\* Results of an attribute read.
Value(v) == [kind |-> "value", val |-> v]
KeyError == [kind |-> "KeyError", val |-> 0]
AttributeError == [kind |-> "AttributeError", val |-> 0]
NoResult == [kind |-> "none", val |-> 0]

\* object.__getattribute__(self, name) for an instance attribute: the
\* instance __dict__ entry, AttributeError when there is none.
ObjectGetAttribute(d, name) ==
    IF name \in DOMAIN d THEN Value(d[name]) ELSE AttributeError

\* A mutation of GetAttribute: the store is read with .get(name), which
\* returns None (0 here) for a missing key instead of raising.
GetAttributeDefault(sh, d, name) ==
    IF name \in SHARED_KEYS
    THEN LET sd == ObjectGetAttribute(d, "shared_dict") IN
         IF sd.kind # "value" THEN sd
         ELSE IF name \in DOMAIN sh[sd.val] THEN Value(sh[sd.val][name])
         ELSE Value(0)
    ELSE ObjectGetAttribute(d, name)

\* BaseDataset.__getattribute__(self, name), self.__dict__ = d.
GetAttribute(sh, d, name) ==
    IF name \in SHARED_KEYS
    THEN LET sd == ObjectGetAttribute(d, "shared_dict") IN
         IF sd.kind # "value" THEN sd
         ELSE IF name \in DOMAIN sh[sd.val] THEN Value(sh[sd.val][name])
         ELSE KeyError
    ELSE ObjectGetAttribute(d, name)

\* A mutation of SetAttr: the SHARED_KEYS test is lost and every name is
\* stored in the instance __dict__.
SetAttrAllLocal(sh, os, c, name, value) ==
    [shared |-> sh, objs |-> [os EXCEPT ![c] = SetItem(@, name, value)]]

\* A mutation of SetAttr: a non-shared name is stored on every object that
\* references the same store instead of on self alone.
SetAttrLeaky(sh, os, c, name, value) ==
    IF name \in SHARED_KEYS
    THEN [shared |-> [sh EXCEPT ![os[c].shared_dict] = SetItem(@, name, value)],
          objs |-> os]
    ELSE [shared |-> sh,
          objs |-> [o \in DOMAIN os |->
                      IF o = c \/ ("shared_dict" \in DOMAIN os[o] /\ "shared_dict" \in DOMAIN os[c]
                                   /\ os[o].shared_dict = os[c].shared_dict)
                      THEN SetItem(os[o], name, value) ELSE os[o]]]

\* A mutation of SetAttr: a shared key is stored with setdefault, so the
\* first write wins and later writes are dropped.
SetAttrKeepFirst(sh, os, c, name, value) ==
    IF name \in SHARED_KEYS
    THEN [shared |-> [sh EXCEPT ![os[c].shared_dict] =
                         IF name \in DOMAIN @ THEN @ ELSE SetItem(@, name, value)],
          objs |-> os]
    ELSE [shared |-> sh, objs |-> [os EXCEPT ![c] = SetItem(@, name, value)]]

\* A mutation of SetAttr: a shared key is stored in the dict and also in the
\* instance __dict__.
SetAttrBoth(sh, os, c, name, value) ==
    IF name \in SHARED_KEYS
    THEN [shared |-> [sh EXCEPT ![os[c].shared_dict] = SetItem(@, name, value)],
          objs |-> [os EXCEPT ![c] = SetItem(@, name, value)]]
    ELSE [shared |-> sh, objs |-> [os EXCEPT ![c] = SetItem(@, name, value)]]

\* A mutation of SetAttr: a write of a shared key replaces the contents of
\* the dict by the one new entry.
SetAttrReplace(sh, os, c, name, value) ==
    IF name \in SHARED_KEYS
    THEN [shared |-> [sh EXCEPT ![os[c].shared_dict] = SetItem(EmptyDict, name, value)],
          objs |-> os]
    ELSE [shared |-> sh, objs |-> [os EXCEPT ![c] = SetItem(@, name, value)]]

\* BaseDataset.__setattr__(self, name, value) on object c: the stores and the
\* objects afterwards.
SetAttr(sh, os, c, name, value) ==
    IF name \in SHARED_KEYS
    THEN [shared |-> [sh EXCEPT ![os[c].shared_dict] = SetItem(@, name, value)],
          objs |-> os]
    ELSE [shared |-> sh, objs |-> [os EXCEPT ![c] = SetItem(@, name, value)]]

\* The keyword arguments of one __init__ call: a dict over some of KwNames.
KwArgs == UNION {[ks -> Values] : ks \in SUBSET KwNames}

\* A mutation of StoreKwargs: the test k in SHARED_KEYS is lost and every
\* keyword is stored.
RECURSIVE StoreKwargsAll(_, _, _)
StoreKwargsAll(st, kw, todo) ==
    IF todo = {} THEN st
    ELSE LET k == CHOOSE x \in todo : TRUE IN
         StoreKwargsAll(SetItem(st, k, kw[k]), kw, todo \ {k})

\* The for loop of __init__ over kwargs.items(): every shared key of kw is
\* stored, every other keyword is ignored.  The keys are distinct, so the
\* order of the loop does not matter; st is the dict being filled.
RECURSIVE StoreKwargs(_, _, _)
StoreKwargs(st, kw, todo) ==
    IF todo = {} THEN st
    ELSE LET k == CHOOSE x \in todo : TRUE IN
         StoreKwargs(IF k \in SHARED_KEYS THEN SetItem(st, k, kw[k]) ELSE st,
                     kw, todo \ {k})

\* A mutation of InitObject: the Manager dict is created once for the class,
\* so every dataset after the first one references the first one's dict.
InitObjectOneStore(sh, os, length, kw) ==
    LET c == Len(os) + 1
        s == 1
        o1 == Append(os, EmptyDict)
        w1 == SetAttr(sh, o1, c, "length", length)
        w2 == SetAttr(Append(w1.shared, EmptyDict), w1.objs, c, "shared_dict", s)
        w3 == [shared |-> [w2.shared EXCEPT ![s] = StoreKwargs(@, kw, DOMAIN kw)],
               objs |-> w2.objs]
    IN SetAttr(w3.shared, w3.objs, c, "length", length)

\* BaseDataset.__init__(self, length, **kwargs): the stores and the objects
\* once the new object (number Len(os) + 1) is constructed.
InitObject(sh, os, length, kw) ==
    LET c == Len(os) + 1
        s == Len(sh) + 1
        o1 == Append(os, EmptyDict)
        w1 == SetAttr(sh, o1, c, "length", length)
        w2 == SetAttr(Append(w1.shared, EmptyDict), w1.objs, c, "shared_dict", s)
        w3 == [shared |-> [w2.shared EXCEPT ![s] = StoreKwargs(@, kw, DOMAIN kw)],
               objs |-> w2.objs]
    IN SetAttr(w3.shared, w3.objs, c, "length", length)

\* BaseDataset.__len__(self): return self.length.
DunderLen(sh, d) == GetAttribute(sh, d, "length")

\* Entries of the operation log: the arguments of a construction, the
\* outcome of a read, the object and name of a write.
Did(op) == [op |-> op, obj |-> 0, name |-> "", res |-> NoResult, kw |-> EmptyDict]
DidInit(length, kw) == [Did("init") EXCEPT !.res = Value(length), !.kw = kw]
DidRead(r) == [Did("read") EXCEPT !.res = r]
DidWrite(c, name) == [Did("write") EXCEPT !.obj = c, !.name = name]
DidLen(c, r) == [Did("len") EXCEPT !.obj = c, !.res = r]

\* ---- operations on datasets ----

\* ds = BaseDataset(length, **kw)
Construct(length, kw) ==
    /\ Len(objs) < MaxObjs
    /\ Len(shared) < MaxStores
    /\ LET w == InitObject(shared, objs, length, kw) IN
         /\ shared' = w.shared
         /\ objs' = w.objs
         /\ lastSet' = Append(lastSet, [k \in (DOMAIN kw) \cap SHARED_KEYS |-> kw[k]])
         /\ own' = Append(own, [n \in {"length"} |-> length])
    /\ last' = DidInit(length, kw)
    /\ UNCHANGED svars

\* A DataLoader worker receives a pickled copy of object c: the copy has the
\* same __dict__, and its shared_dict is a proxy of the same Manager dict.
Replicate(c) ==
    /\ Len(objs) < MaxObjs
    /\ objs' = Append(objs, objs[c])
    /\ own' = Append(own, own[c])
    /\ last' = Did("replicate")
    /\ UNCHANGED <<shared, lastSet>>
    /\ UNCHANGED svars

\* ds.name on object c
Read(c, name) ==
    /\ last' = DidRead(GetAttribute(shared, objs[c], name))
    /\ UNCHANGED <<shared, objs, lastSet, own>>
    /\ UNCHANGED svars

\* len(ds) on object c
LenCall(c) ==
    /\ last' = DidLen(c, DunderLen(shared, objs[c]))
    /\ UNCHANGED <<shared, objs, lastSet, own>>
    /\ UNCHANGED svars

\* ds.name = value on object c
Write(c, name, value) ==
    /\ LET w == SetAttr(shared, objs, c, name, value) IN
         /\ shared' = w.shared
         /\ objs' = w.objs
    /\ IF name \in SHARED_KEYS
       THEN /\ lastSet' = [lastSet EXCEPT ![objs[c].shared_dict] = SetItem(@, name, value)]
            /\ own' = own
       ELSE /\ own' = [own EXCEPT ![c] = SetItem(@, name, value)]
            /\ lastSet' = lastSet
    /\ last' = DidWrite(c, name)
    /\ UNCHANGED svars

\* Before any dataset is constructed; no sampler takes part in a dataset run.
DataInit ==
    /\ shared = <<>>
    /\ objs = <<>>
    /\ last = Did("none")
    /\ lastSet = <<>>
    /\ own = <<>>
    /\ cfg = [variant |-> "seq", N |-> 0, R |-> 1, drop_last |-> FALSE, arg |-> {}]
    /\ perm = <<>>
    /\ start_idx = EmptyDict
    /\ its = <<>>
    /\ serr = "none"

DataNext ==
    \/ \E length \in Values, kw \in KwArgs : Construct(length, kw)
    \/ \E c \in DOMAIN objs : Replicate(c)
    \/ \E c \in DOMAIN objs, name \in AttrNames : Read(c, name)
    \/ \E c \in DOMAIN objs, name \in AttrNames, value \in Values : Write(c, name, value)
    \/ \E c \in DOMAIN objs : LenCall(c)

SpecDataset == DataInit /\ [][DataNext]_vars

(***************************************************************************)
(* Properties of BaseDataset, checked under SpecDataset.                   *)
(***************************************************************************)

StoreOf(c) == objs[c].shared_dict
ReadOf(c, name) == GetAttribute(shared, objs[c], name)

\* C1: once a copy has written shared key K := V, a read of K on every copy
\* that references the same store returns V, until K is written again,
\* whatever the copies read and write in between.  lastSet holds the V of the
\* latest write (or of __init__) per store and key.
C1_SharedWriteVisible ==
    \A c \in DOMAIN objs : \A K \in SHARED_KEYS :
        K \in DOMAIN lastSet[StoreOf(c)] => ReadOf(c, K) = Value(lastSet[StoreOf(c)][K])

\* C1 witness: one copy has just written a shared key and another object that
\* references the same store reads the written value.
C1_Witness ==
    /\ last.op = "write"
    /\ last.name \in SHARED_KEYS
    /\ \E c2 \in DOMAIN objs :
          /\ c2 # last.obj
          /\ StoreOf(c2) = StoreOf(last.obj)
          /\ ReadOf(c2, last.name) = Value(lastSet[StoreOf(last.obj)][last.name])
          /\ lastSet[StoreOf(last.obj)][last.name] = MaxVal

\* C2: for a name outside SHARED_KEYS, what a copy reads is the value that
\* copy itself last wrote, or the value it was replicated with, or nothing:
\* no write of another copy shows.
C2_LocalWritesStayLocal ==
    \A c \in DOMAIN objs : \A n \in LocalNames :
        ReadOf(c, n) = IF n \in DOMAIN own[c] THEN Value(own[c][n]) ELSE AttributeError

\* C2 witness: a copy has just written a non-shared name, and another object
\* of the same dataset (same store) does not read the written value.
C2_Witness ==
    /\ last.op = "write"
    /\ last.name \in LocalNames
    /\ \E c2 \in DOMAIN objs :
          /\ c2 # last.obj
          /\ StoreOf(c2) = StoreOf(last.obj)
          /\ ReadOf(last.obj, last.name).kind = "value"
          /\ ReadOf(c2, last.name) # ReadOf(last.obj, last.name)

\* C3: a read of a shared key that neither __init__ nor any write has stored
\* raises KeyError, a read of a non-shared name never set on that copy raises
\* AttributeError, and the failed read changes neither a store nor a __dict__.
C3_UnsetReadsFail ==
    [][last'.op = "read" =>
         \A c \in DOMAIN objs : \A n \in AttrNames :
            Read(c, n) =>
              /\ (n \in SHARED_KEYS /\ n \notin DOMAIN lastSet[StoreOf(c)])
                    => last'.res = KeyError
              /\ (n \in LocalNames /\ n \notin DOMAIN own[c])
                    => last'.res = AttributeError
              /\ last'.res.kind # "value" => (shared' = shared /\ objs' = objs)]_vars

\* C3 witness: a read has just failed with KeyError while another key of the
\* same store is set, on a dataset that has a replica.
C3_Witness ==
    /\ last.op = "read"
    /\ last.res = KeyError
    /\ Len(objs) = 2
    /\ StoreOf(1) = StoreOf(2)
    /\ DOMAIN shared[StoreOf(1)] # {}

\* C10: right after BaseDataset(length, **kw) the new store holds exactly the
\* pairs of kw whose key is a shared key: each reads back its value, every
\* other shared key raises KeyError; and a shared key stays absent until
\* __init__ or a write stores it.
C10_InitStoresSharedKwargs ==
    /\ last.op = "init" =>
          LET kw == last.kw
              s == Len(shared)
              c == Len(objs)
          IN /\ StoreOf(c) = s
             /\ \A o \in DOMAIN objs : o # c => StoreOf(o) # s
             /\ shared[s] = [k \in (DOMAIN kw) \cap SHARED_KEYS |-> kw[k]]
             /\ \A k \in SHARED_KEYS :
                   ReadOf(c, k) = IF k \in DOMAIN kw THEN Value(kw[k]) ELSE KeyError
    /\ \A c \in DOMAIN objs : \A k \in SHARED_KEYS :
          k \notin DOMAIN lastSet[StoreOf(c)] => ReadOf(c, k) = KeyError

\* C10 witness: a dataset has just been constructed with some shared keys
\* supplied, some not, and a keyword outside SHARED_KEYS.
C10_Witness ==
    /\ last.op = "init"
    /\ "mono" \in DOMAIN last.kw
    /\ LET st == shared[Len(shared)] IN
         /\ "duration" \in DOMAIN st
         /\ st["duration"] = MaxVal
         /\ "transform" \notin DOMAIN st

LenOf(c) == DunderLen(shared, objs[c])

\* C11: reads and writes of a shared key are atomic and the last write wins:
\* whichever copy writes K := v, and whatever K held before, every copy on
\* that store reads v afterwards; at all times the copies of one store read
\* the same thing for K, and it is a value a write or a construction stored
\* (or KeyError), never anything else.
C11_LastWriteWins ==
    /\ [](\A c1 \in DOMAIN objs : \A k \in SHARED_KEYS :
            /\ ReadOf(c1, k) \in {KeyError} \cup {Value(v) : v \in Values}
            /\ \A c2 \in DOMAIN objs :
                  StoreOf(c1) = StoreOf(c2) => ReadOf(c1, k) = ReadOf(c2, k))
    /\ [][(last'.op = "write" /\ last'.name \in SHARED_KEYS) =>
            \A v \in Values :
               Write(last'.obj, last'.name, v) =>
                  \A c2 \in DOMAIN objs :
                     StoreOf(c2) = StoreOf(last'.obj)
                        => GetAttribute(shared', objs'[c2], last'.name) = Value(v)]_vars

\* C11 witness: the replica has just overwritten a key with the smallest
\* value while another key of the store holds the largest, and the original
\* reads the replica's value.
C11_Witness ==
    /\ last.op = "write"
    /\ last.obj = 2
    /\ last.name = "transform"
    /\ Len(objs) = 2
    /\ StoreOf(1) = StoreOf(2)
    /\ ReadOf(1, "transform") = Value(1)
    /\ ReadOf(2, "transform") = Value(1)
    /\ ReadOf(1, "duration") = Value(MaxVal)

\* C12: len(ds) returns the copy's own length: it is the length given to
\* __init__ (or the length of the object the copy was replicated from), and
\* no step changes it except that copy's own write of "length": no read, no
\* write of a shared key, and no operation on another copy.
C12_LengthIsLocal ==
    [][/\ \A c \in DOMAIN objs :
             LenOf(c)' # LenOf(c) =>
                (last'.op = "write" /\ last'.obj = c /\ last'.name = "length")
       /\ last'.op = "init" => DunderLen(shared', objs'[Len(objs')]) = last'.res
       /\ last'.op = "replicate" =>
             \A c \in DOMAIN objs : Replicate(c) => DunderLen(shared', objs'[Len(objs')]) = LenOf(c)
       /\ last'.op = "len" => last'.res = LenOf(last'.obj)]_vars

\* C12 witness: len() has just been called on a copy whose store holds all
\* three shared keys, and the other copy of the dataset has a different
\* length of its own.
C12_Witness ==
    /\ last.op = "len"
    /\ last.obj = 1
    /\ Len(objs) = 2
    /\ StoreOf(1) = StoreOf(2)
    /\ DOMAIN shared[StoreOf(1)] = SHARED_KEYS
    /\ last.res = LenOf(1)
    /\ LenOf(1) = Value(1)
    /\ LenOf(2) = Value(MaxVal)

\* C15: no shared key is ever an attribute of a copy: the instance __dict__
\* of every object holds no name of SHARED_KEYS, so a shared key has one
\* value only, the one in the store.
C15_NoLocalDuplicate ==
    \A c \in DOMAIN objs : (DOMAIN objs[c]) \cap SHARED_KEYS = {}

\* C15 witness: every shared key of the store of a replicated dataset has
\* been set, the last one by a write, and both copies have attributes of
\* their own.
C15_Witness ==
    /\ last.op = "write"
    /\ last.name \in SHARED_KEYS
    /\ Len(objs) = 2
    /\ StoreOf(1) = StoreOf(2)
    /\ DOMAIN shared[StoreOf(1)] = SHARED_KEYS
    /\ \A c \in DOMAIN objs : "mono" \in DOMAIN objs[c]

\* C16: an object never changes its store; __init__ gives the new dataset a
\* store that no existing object references; a replica references the store
\* of the object it was made from; and a write of a shared key on one
\* dataset changes no read of a copy that has another store.
C16_StoresAreSeparate ==
    [][/\ \A c \in DOMAIN objs : StoreOf(c)' = StoreOf(c)
       /\ last'.op = "init" =>
             \A c \in DOMAIN objs : objs'[Len(objs')].shared_dict # StoreOf(c)
       /\ last'.op = "replicate" =>
             \A c \in DOMAIN objs :
                Replicate(c) => objs'[Len(objs')].shared_dict = StoreOf(c)
       /\ last'.op = "write" =>
             \A c2 \in DOMAIN objs :
                StoreOf(c2) # StoreOf(last'.obj) =>
                   \A k \in SHARED_KEYS : ReadOf(c2, k)' = ReadOf(c2, k)]_vars

\* C16 witness: two datasets exist, a shared key has just been written on
\* one of them, and the other one still raises KeyError for it.
C16_Witness ==
    /\ last.op = "write"
    /\ last.name \in SHARED_KEYS
    /\ Len(objs) = 2
    /\ StoreOf(1) # StoreOf(2)
    /\ ReadOf(last.obj, last.name) = Value(MaxVal)
    /\ ReadOf(3 - last.obj, last.name) = KeyError
    /\ DOMAIN shared[StoreOf(3 - last.obj)] # {}

(***************************************************************************)
(* Base samplers (torch.utils.data), as the resumable samplers use them.   *)
(***************************************************************************)

\* list(range(n)), as a 1-based sequence.
Range(n) == [i \in 1..n |-> i - 1]

\* What torch.randperm(n).tolist() can return.
Perms(n) == {p \in [1..n -> 0..(n - 1)] : \A i, j \in 1..n : i # j => p[i] # p[j]}

\* math.ceil(a / b) for b > 0.
CeilDiv(a, b) == 0 - ((0 - a) \div b)

\* DistributedSampler.__init__: self.num_samples.
NumSamples(n, r, drop_last) ==
    IF drop_last /\ n % r # 0 THEN CeilDiv(n - r, r) ELSE CeilDiv(n, r)

\* DistributedSampler.__iter__: the index list padded (or cut) to total_size.
Padded(indices, total, drop_last) ==
    LET len == Len(indices)
        padding == total - len
    IN IF drop_last THEN SubSeq(indices, 1, total)
       ELSE IF padding <= len THEN indices \o SubSeq(indices, 1, padding)
       ELSE indices \o [j \in 1..padding |-> indices[((j - 1) % len) + 1]]

\* indices[rank:total_size:num_replicas]
Strided(indices, rank, total, r) ==
    [k \in 1..(total \div r) |-> indices[rank + (k - 1) * r + 1]]

\* super().__iter__() of the sampler of replica rank: the order the base
\* sampler produces for one traversal.  p is the epoch's permutation.
BaseOrder(c, p, rank) ==
    IF c.variant = "seq" THEN Range(c.N)
    ELSE LET total == NumSamples(c.N, c.R, c.drop_last) * c.R IN
         Strided(Padded(p, total, c.drop_last), rank, total, c.R)

(***************************************************************************)
(* ResumableSequentialSampler / ResumableDistributedSampler                *)
(***************************************************************************)

\* A mutation of StoredStart: the distributed variant keeps the global index.
StoredStartGlobal(variant, arg, r) ==
    IF arg = {} THEN 0 ELSE CHOOSE g \in arg : TRUE

\* A mutation of StoredStart: a negative argument is clamped to 0.
StoredStartClamped(variant, arg, r) ==
    IF arg = {} THEN 0
    ELSE LET g == CHOOSE x \in arg : TRUE
             v == IF variant = "dist" THEN g \div r ELSE g
         IN IF v < 0 THEN 0 ELSE v

\* A mutation of StoredStart: the distributed variant rounds the quotient up.
StoredStartCeil(variant, arg, r) ==
    IF arg = {} THEN 0
    ELSE LET g == CHOOSE x \in arg : TRUE IN
         IF variant = "dist" THEN 0 - ((0 - g) \div r) ELSE g

\* __init__: the value stored in self.start_idx.  arg is {} for
\* start_idx=None and {g} for start_idx=g.
StoredStart(variant, arg, r) ==
    IF arg = {} THEN 0
    ELSE LET g == CHOOSE x \in arg : TRUE IN
         IF variant = "dist" THEN g \div r ELSE g

\* A mutation of Scan: the comparison is i > self.start_idx.
RECURSIVE ScanStrict(_, _, _)
ScanStrict(order, i, s) ==
    IF i >= Len(order) THEN [done |-> TRUE, i |-> i, idx |-> 0]
    ELSE IF i > s THEN [done |-> FALSE, i |-> i + 1, idx |-> order[i + 1]]
    ELSE ScanStrict(order, i + 1, s)

\* A mutation of Scan: the skipped positions are emitted and the kept ones skipped.
RECURSIVE ScanPrefix(_, _, _)
ScanPrefix(order, i, s) ==
    IF i >= Len(order) THEN [done |-> TRUE, i |-> i, idx |-> 0]
    ELSE IF i < s THEN [done |-> FALSE, i |-> i + 1, idx |-> order[i + 1]]
    ELSE ScanPrefix(order, i + 1, s)

\* One next() on the generator of __iter__: the for loop over
\* enumerate(super().__iter__()) resumes at position i (0-based) and runs to
\* the next yield, or off the end of the order.
RECURSIVE Scan(_, _, _)
Scan(order, i, s) ==
    IF i >= Len(order) THEN [done |-> TRUE, i |-> i, idx |-> 0]
    ELSE IF i >= s THEN [done |-> FALSE, i |-> i + 1, idx |-> order[i + 1]]
    ELSE Scan(order, i + 1, s)

\* A mutation of AfterLoop: start_idx is left as it was.
AfterLoopKeep(s) == s

\* A mutation of AfterLoop: start_idx is reset to 1.
AfterLoopOne(s) == 1

\* The statement after the loop: self.start_idx = 0.
AfterLoop(s) == 0

SameRank(k, rank) == its[k].rank = rank

\* ---- operations on samplers ----

\* sampler = Resumable...Sampler(dataset, start_idx=arg, ...) on replica rank
NewSampler(rank) ==
    /\ rank \in 0..(cfg.R - 1)
    /\ rank \notin DOMAIN start_idx
    /\ start_idx' = SetItem(start_idx, rank, StoredStart(cfg.variant, cfg.arg, cfg.R))
    /\ serr' = "none"
    /\ UNCHANGED <<cfg, perm, its>>
    /\ UNCHANGED dvars

\* it = iter(sampler) on replica rank: a generator object, no code of
\* __iter__ runs yet.  prior, doneBefore and solo are history.
Iter(rank) ==
    /\ rank \in DOMAIN start_idx
    /\ Len(its) < MaxIters
    /\ LET same == {k \in DOMAIN its : SameRank(k, rank)}
           done == {k \in same : its[k].pc = "done"}
           new == [rank |-> rank, pc |-> "created", order |-> <<>>, i |-> 0,
                   out |-> <<>>, prior |-> Cardinality(same),
                   doneBefore |-> Cardinality(done), solo |-> (same = done)]
           old == [k \in DOMAIN its |->
                     IF SameRank(k, rank) /\ its[k].pc # "done"
                     THEN [its[k] EXCEPT !.solo = FALSE] ELSE its[k]]
       IN its' = Append(old, new)
    /\ serr' = "none"
    /\ UNCHANGED <<cfg, perm, start_idx>>
    /\ UNCHANGED dvars

\* len(self.data_source) as super().__iter__() evaluates it at the first
\* next() of a traversal: BaseDataset.__len__ of the dataset the sampler was
\* built over, which is object 1 when the program has a dataset object, and
\* the fixed length cfg.N in the runs that have samplers only.
SourceLen == IF Len(objs) >= 1 THEN DunderLen(shared, objs[1]).val ELSE cfg.N

\* A mutation of NextItem: start_idx is reset at the first yield already.
NextItemResetOnYield(k) ==
    /\ its[k].pc # "done"
    /\ LET g == its[k]
           order == IF g.pc = "created"
                    THEN BaseOrder([cfg EXCEPT !.N = SourceLen], perm, g.rank)
                    ELSE g.order
           r == Scan(order, g.i, start_idx[g.rank])
       IN IF r.done
          THEN /\ its' = [its EXCEPT ![k] = [g EXCEPT !.pc = "done", !.order = order, !.i = r.i]]
               /\ start_idx' = [start_idx EXCEPT ![g.rank] = AfterLoop(@)]
          ELSE /\ its' = [its EXCEPT ![k] = [g EXCEPT !.pc = "running", !.order = order,
                                                      !.i = r.i, !.out = Append(@, r.idx)]]
               /\ start_idx' = [start_idx EXCEPT ![g.rank] = AfterLoop(@)]
    /\ serr' = "none"
    /\ UNCHANGED <<cfg, perm>>
    /\ UNCHANGED dvars

\* next(it) on generator k: the first call evaluates super().__iter__().
NextItem(k) ==
    /\ its[k].pc # "done"
    /\ LET g == its[k]
           order == IF g.pc = "created"
                    THEN BaseOrder([cfg EXCEPT !.N = SourceLen], perm, g.rank)
                    ELSE g.order
           r == Scan(order, g.i, start_idx[g.rank])
       IN IF r.done
          THEN /\ its' = [its EXCEPT ![k] = [g EXCEPT !.pc = "done", !.order = order, !.i = r.i]]
               /\ start_idx' = [start_idx EXCEPT ![g.rank] = AfterLoop(@)]
          ELSE /\ its' = [its EXCEPT ![k] = [g EXCEPT !.pc = "running", !.order = order,
                                                      !.i = r.i, !.out = Append(@, r.idx)]]
               /\ start_idx' = start_idx
    /\ serr' = "none"
    /\ UNCHANGED <<cfg, perm>>
    /\ UNCHANGED dvars

\* The start_idx arguments tried for a dataset of n items: None, and the
\* integers from below 0 to above n.
StartArgs(n) == {{}} \cup {{g} : g \in (0 - MaxSkew)..(n + MaxSkew)}

SamplerInit ==
    /\ \E variant \in {"seq", "dist"}, n \in 0..MaxN, r \in 1..MaxReplicas,
          dl \in BOOLEAN, arg \in StartArgs(MaxN) :
          /\ variant = "seq" => (r = 1 /\ dl = FALSE)
          /\ arg \in StartArgs(n)
          /\ cfg = [variant |-> variant, N |-> n, R |-> r, drop_last |-> dl, arg |-> arg]
    /\ perm \in Perms(cfg.N)
    /\ cfg.variant = "seq" => perm = Range(cfg.N)
    /\ start_idx = EmptyDict
    /\ its = <<>>
    /\ serr = "none"
    /\ shared = <<>>
    /\ objs = <<>>
    /\ last = Did("none")
    /\ lastSet = <<>>
    /\ own = <<>>

SamplerNext ==
    \/ \E rank \in 0..(MaxReplicas - 1) : NewSampler(rank)
    \/ \E rank \in DOMAIN start_idx : Iter(rank)
    \/ \E k \in DOMAIN its : NextItem(k)

SpecSampler == SamplerInit /\ [][SamplerNext]_vars

(***************************************************************************)
(* Properties of the resumable samplers, checked under SpecSampler.        *)
(***************************************************************************)

ArgValue == CHOOSE g \in cfg.arg : TRUE

\* floor(g / r), by its defining inequalities.
Floor(g, r) ==
    CHOOSE q \in (0 - (MaxN + MaxSkew + 1))..(MaxN + MaxSkew) : q * r <= g /\ g < (q + 1) * r

\* The offset the constructor is specified to store: 0 without an argument,
\* the argument for the sequential variant, floor(argument / num_replicas)
\* for the distributed one.
ResumeOffset ==
    IF cfg.arg = {} THEN 0
    ELSE IF cfg.variant = "dist" THEN Floor(ArgValue, cfg.R) ELSE ArgValue

\* The positions n, n+1, ..., m-1 as a sequence.
FromTo(n, m) == [j \in 1..(m - n) |-> n + j - 1]

\* seq without its first d elements.
Suffix(seq, d) == SubSeq(seq, d + 1, Len(seq))

Exhausted(k) == its[k].pc = "done"

\* Generator k is the first one requested from its sampler and no other
\* traversal of that sampler was requested before k was exhausted.
FirstAlone(k) == its[k].prior = 0 /\ its[k].solo

\* C4: sequential sampler, start_index in 0..N (or not given, i.e. 0).  With
\* the traversals consumed to their end one after the other, the first one
\* yields start_index, ..., N-1 and each later one 0, ..., N-1.
C4_SequentialResume ==
    (cfg.variant = "seq" /\ ResumeOffset \in 0..cfg.N) =>
        \A k \in DOMAIN its :
            (Exhausted(k) /\ its[k].solo) =>
                its[k].out = IF its[k].prior = 0 THEN FromTo(ResumeOffset, cfg.N)
                             ELSE FromTo(0, cfg.N)

\* C4 witness: N = 3, start_index = 2; the first traversal gave <<2>> and the
\* second one, requested after the first was exhausted, <<0, 1, 2>>.
C4_Witness ==
    /\ cfg.variant = "seq" /\ cfg.N = 3 /\ cfg.arg = {2}
    /\ Len(its) = 2
    /\ Exhausted(1) /\ its[1].solo /\ its[1].out = <<2>>
    /\ Exhausted(2) /\ its[2].solo /\ its[2].out = <<0, 1, 2>>

\* C5 as claimed: every traversal of a sequential sampler other than the
\* first one requested emits 0, ..., N-1, whatever happened to the first.
C5_Original ==
    cfg.variant = "seq" =>
        \A k \in DOMAIN its :
            (Exhausted(k) /\ its[k].prior >= 1) => its[k].out = FromTo(0, cfg.N)

\* C5 as amended: a traversal requested after some traversal of the sampler
\* was consumed to exhaustion emits 0, ..., N-1; a traversal that ends while
\* start_idx still holds the constructor's offset (no traversal was exhausted
\* before it, the earlier ones having been left unfinished) skips that
\* prefix like the first one.
C5_FullAfterExhaustion ==
    /\ [](cfg.variant = "seq" =>
            \A k \in DOMAIN its :
                (Exhausted(k) /\ its[k].doneBefore >= 1) => its[k].out = FromTo(0, cfg.N))
    /\ [][cfg.variant = "seq" =>
            \A k \in DOMAIN its :
                (/\ ~Exhausted(k)
                 /\ its'[k].pc = "done"
                 /\ ResumeOffset \in 0..cfg.N
                 /\ start_idx[its[k].rank] = ResumeOffset)
                => its'[k].out = FromTo(ResumeOffset, cfg.N)]_vars

\* C5 witness: the first traversal was exhausted before the second one was
\* requested, and the second emitted all of 0, 1, 2 although start_index = 1.
C5_Witness ==
    /\ cfg.variant = "seq" /\ cfg.N = 3 /\ cfg.arg = {1}
    /\ Len(its) = 2
    /\ its[2].doneBefore = 1 /\ Exhausted(2)
    /\ its[2].out = <<0, 1, 2>>
    /\ its[1].out = <<1, 2>>

\* Whether the start_idx argument is outside 0..N.
BadArg == cfg.arg # {} /\ (ArgValue < 0 \/ ArgValue > cfg.N)

\* C6 as claimed: with start_index negative or above N the constructor
\* raises and no sampler exists.
C6_Original ==
    BadArg => (start_idx = EmptyDict /\ its = <<>>)

\* C6 as amended: with start_index negative or above N the constructor
\* raises nothing and returns a sampler whose start_idx is the argument
\* (sequential) or floor(argument / num_replicas) (distributed); it keeps that
\* value until a traversal is exhausted.
C6_NoValidation ==
    BadArg =>
        /\ serr = "none"
        /\ \A rank \in DOMAIN start_idx :
              (\A k \in DOMAIN its : its[k].rank = rank => ~Exhausted(k))
                  => start_idx[rank] = ResumeOffset

\* C6 witness: samplers constructed with start_index = -1 on two replicas;
\* floor(-1 / 2) = -1 is stored.
C6_Witness ==
    /\ cfg.arg = {0 - 1} /\ cfg.variant = "dist" /\ cfg.R = 2
    /\ DOMAIN start_idx = {0, 1}
    /\ start_idx[0] = 0 - 1
    /\ serr = "none"

\* C7: with a start offset at or beyond the length of the order (N for the
\* sequential variant, the shard length for the distributed one) nothing
\* raises, and the first traversal emits nothing.
C7_EmptyFirstTraversal ==
    /\ serr = "none"
    /\ \A k \in DOMAIN its :
          (/\ FirstAlone(k)
           /\ its[k].pc # "created"
           /\ ResumeOffset >= Len(its[k].order)
           /\ cfg.variant = "seq" => ResumeOffset >= cfg.N)
          => (Exhausted(k) /\ its[k].out = <<>>)

\* C7 witness: a first traversal over a non-empty order ended without a
\* single index, for an offset above the length.
C7_Witness ==
    \E k \in DOMAIN its :
        /\ FirstAlone(k) /\ Exhausted(k)
        /\ Len(its[k].order) = 2
        /\ ResumeOffset > Len(its[k].order)
        /\ its[k].out = <<>>
        /\ start_idx[its[k].rank] = 0

\* C8: distributed sampler, global_start_index g >= 0 (or none): the stored
\* offset is floor(g / R), 0 without g, and the first traversal of a replica
\* skips exactly its first floor(g / R) local positions.
C8_DistributedOffset ==
    (cfg.variant = "dist" /\ (cfg.arg = {} \/ ArgValue >= 0)) =>
        LET q == IF cfg.arg = {} THEN 0 ELSE Floor(ArgValue, cfg.R) IN
        /\ \A rank \in DOMAIN start_idx :
              (\A k \in DOMAIN its : its[k].rank = rank => ~Exhausted(k))
                  => start_idx[rank] = q
        /\ \A k \in DOMAIN its :
              (FirstAlone(k) /\ Exhausted(k)) =>
                  /\ Len(its[k].out) = IF q >= Len(its[k].order) THEN 0
                                       ELSE Len(its[k].order) - q
                  /\ \A j \in 1..Len(its[k].out) : its[k].out[j] = its[k].order[q + j]

\* C8 witness: N = 3, R = 2, g = 3 stores 1 on both replicas, and the first
\* traversal of a replica skipped one of its two local positions.
C8_Witness ==
    /\ cfg.variant = "dist" /\ cfg.N = 3 /\ cfg.R = 2 /\ cfg.arg = {3}
    /\ DOMAIN start_idx = {0, 1}
    /\ \E k \in DOMAIN its :
          /\ FirstAlone(k) /\ Exhausted(k)
          /\ Len(its[k].order) = 2 /\ its[k].out = <<its[k].order[2]>>
          /\ start_idx[1 - its[k].rank] = 1

\* C9: the first traversal emits a contiguous suffix of the order the base
\* sampler produced for it: the first min(start offset, length) elements are
\* dropped (none for a negative offset), nothing is added, repeated or
\* reordered.  While the traversal runs, what it has emitted is that suffix
\* up to the position reached.
C9_SuffixOfBaseOrder ==
    \A k \in DOMAIN its :
        FirstAlone(k) =>
            LET len == Len(its[k].order)
                d == IF ResumeOffset < 0 THEN 0
                     ELSE IF ResumeOffset > len THEN len ELSE ResumeOffset
            IN /\ its[k].out = SubSeq(its[k].order, d + 1, its[k].i)
               /\ Exhausted(k) => its[k].out = Suffix(its[k].order, d)

\* C9 witness: a replica's shard of a shuffled order, <<2, 0>> or <<2, 1>>,
\* whose first traversal dropped the first element and emitted the second.
C9_Witness ==
    \E k \in DOMAIN its :
        /\ cfg.variant = "dist" /\ cfg.R = 2
        /\ FirstAlone(k) /\ Exhausted(k)
        /\ Len(its[k].order) = 2 /\ its[k].order[1] = 2
        /\ its[k].out = <<its[k].order[2]>>

\* d cut to the range 0..len: the number of leading positions a traversal
\* with offset d skips in an order of length len.
Clip(d, len) == IF d < 0 THEN 0 ELSE IF d > len THEN len ELSE d

\* C13: a traversal requested after some traversal of the sampler was
\* consumed to its end emits exactly the order of the base sampler, for
\* either variant: the same as a sampler with the same settings built without
\* start_idx, so the emitted sequence does not depend on start_idx.
C13_LaterTraversalsIgnoreStart ==
    \A k \in DOMAIN its :
        its[k].doneBefore >= 1 =>
            LET base == BaseOrder([cfg EXCEPT !.arg = {}], perm, its[k].rank)
            IN /\ its[k].out = SubSeq(base, 1, its[k].i)
               /\ Exhausted(k) => its[k].out = base

\* C13 witness: on a replica of a two-replica distributed sampler built with
\* start_idx = 2, the first traversal dropped an element and the second,
\* requested after the first ended, emitted the replica's whole shard.
C13_Witness ==
    /\ cfg.variant = "dist" /\ cfg.R = 2 /\ cfg.arg = {2}
    /\ Len(its) = 2
    /\ its[1].rank = its[2].rank
    /\ Exhausted(1) /\ Exhausted(2)
    /\ its[2].doneBefore = 1
    /\ Len(its[2].out) = 2
    /\ its[2].out = BaseOrder(cfg, perm, its[2].rank)
    /\ Len(its[1].out) = 1

\* C14: start_idx of a sampler holds the constructor's offset until a first
\* traversal of it is completed and 0 from then on; a step changes start_idx
\* only by setting it to 0, and once 0 it stays 0.
C14_FullEpochAbsorbing ==
    /\ [](\A rank \in DOMAIN start_idx :
            start_idx[rank] =
               IF \E k \in DOMAIN its : SameRank(k, rank) /\ Exhausted(k)
               THEN 0 ELSE ResumeOffset)
    /\ [][\A rank \in DOMAIN start_idx :
            /\ start_idx[rank] = 0 => start_idx'[rank] = 0
            /\ start_idx'[rank] # start_idx[rank] => start_idx'[rank] = 0]_vars

\* C14 witness: a sampler built with offset 2 whose first traversal has
\* completed holds start_idx = 0 while its second traversal is under way.
C14_Witness ==
    /\ ResumeOffset = 2
    /\ Len(its) = 2
    /\ its[1].rank = its[2].rank
    /\ Exhausted(1)
    /\ its[2].doneBefore = 1 /\ its[2].pc = "running"
    /\ start_idx[its[1].rank] = 0

\* DistributedSampler: self.total_size = self.num_samples * self.num_replicas.
TotalSize == NumSamples(cfg.N, cfg.R, cfg.drop_last) * cfg.R

\* The epoch's global order: the index list of DistributedSampler.__iter__
\* before it is subsampled; replica rank takes its positions rank,
\* rank + R, rank + 2R, ... (0-based).
EpochOrder == Padded(perm, TotalSize, cfg.drop_last)

\* The global position of the j-th element (1-based) that the exhausted
\* traversal k emitted: k emitted the last Len(out) local positions of its
\* replica, and local position l is global position rank + l * R.
GlobalPos(k, j) ==
    its[k].rank + (Len(its[k].order) - Len(its[k].out) + j - 1) * cfg.R

FirstDone == {k \in DOMAIN its : FirstAlone(k) /\ Exhausted(k)}

\* The global positions emitted by the first traversals of the replicas.
Emitted == UNION {{GlobalPos(k, j) : j \in 1..Len(its[k].out)} : k \in FirstDone}

\* Every replica of a distributed sampler built with a global start index
\* has consumed its first traversal to the end.
AllFirstDone ==
    /\ cfg.variant = "dist"
    /\ cfg.arg # {}
    /\ \A rank \in 0..(cfg.R - 1) : \E k \in FirstDone : its[k].rank = rank

\* C17 as claimed: for every global start index g >= 0, the first
\* traversals of the replicas together emit every global position p >= g,
\* and the positions p < g they emit number exactly g mod R.
C17_Original ==
    (AllFirstDone /\ ArgValue >= 0) =>
        /\ \A p \in 0..(TotalSize - 1) : p >= ArgValue => p \in Emitted
        /\ Cardinality({p \in Emitted : p < ArgValue}) = ArgValue % cfg.R

\* C17 as amended: for every global start index g, the first traversals of
\* the replicas together emit every global position p >= g of the epoch's
\* order, each element emitted being the one at its global position; and
\* for 0 <= g <= total_size the positions p < g they emit number exactly
\* g mod R, fewer than R.
C17_NoPositionLost ==
    AllFirstDone =>
        /\ \A p \in 0..(TotalSize - 1) : p >= ArgValue => p \in Emitted
        /\ \A k \in FirstDone : \A j \in 1..Len(its[k].out) :
              its[k].out[j] = EpochOrder[GlobalPos(k, j) + 1]
        /\ ArgValue \in 0..TotalSize =>
              /\ Cardinality({p \in Emitted : p < ArgValue}) = ArgValue % cfg.R
              /\ Cardinality({p \in Emitted : p < ArgValue}) < cfg.R

\* C17 witness: N = 3 on two replicas resumed at g = 3: both first
\* traversals are done and emitted global positions 2 and 3, of which
\* position 2 was consumed before.
C17_Witness ==
    /\ cfg.N = 3 /\ cfg.R = 2 /\ cfg.arg = {3} /\ ~cfg.drop_last
    /\ AllFirstDone
    /\ Emitted = {2, 3}


\* C18: a step in which no traversal runs off the end of its order leaves
\* every start_idx as it was; and a traversal requested after others, none
\* of which was consumed to its end, skips the constructor's offset like a
\* first one.
C18_ResetOnlyOnExhaustion ==
    [][/\ (\A k \in DOMAIN its : its'[k].pc = "done" => Exhausted(k))
             => \A rank \in DOMAIN start_idx : start_idx'[rank] = start_idx[rank]
       /\ \A k \in DOMAIN its :
             (/\ ~Exhausted(k)
              /\ its'[k].pc = "done"
              /\ its[k].prior >= 1
              /\ \A j \in DOMAIN its : SameRank(j, its[k].rank) => ~Exhausted(j))
             => its'[k].out = Suffix(its'[k].order,
                                      Clip(ResumeOffset, Len(its'[k].order)))]_vars

\* C18 witness: the first traversal was left after its first element, the
\* second one was consumed to its end and skipped the same one position.
C18_Witness ==
    /\ ResumeOffset = 1
    /\ Len(its) = 2
    /\ its[1].rank = its[2].rank
    /\ its[1].pc = "running" /\ Len(its[1].out) = 1
    /\ Exhausted(2)
    /\ Len(its[2].order) = 3
    /\ its[2].out = Suffix(its[2].order, 1)
    /\ start_idx[its[2].rank] = 0

\* C19: with the next() calls of the traversals of one sampler interleaved
\* in any order, each traversal emits the positions from the constructor's
\* offset on or all positions of its order, contiguously and nothing else,
\* and at its end it has emitted exactly that suffix or the whole order.
C19_SuffixOrFull ==
    \A k \in DOMAIN its :
        LET o == its[k].order
            d == Clip(ResumeOffset, Len(o))
        IN /\ \/ its[k].out = SubSeq(o, d + 1, its[k].i)
              \/ its[k].out = SubSeq(o, 1, its[k].i)
           /\ Exhausted(k) => (its[k].out = Suffix(o, d) \/ its[k].out = o)

\* C19 witness: two traversals of one sampler were open at the same time;
\* the one that ended first emitted the suffix, the other one, requested
\* before that end but first advanced after it, the whole order.
C19_Witness ==
    /\ Len(its) = 2
    /\ its[1].rank = its[2].rank
    /\ Exhausted(1) /\ Exhausted(2)
    /\ its[2].doneBefore = 0
    /\ Len(its[1].order) = 3
    /\ its[1].out = Suffix(its[1].order, 2)
    /\ its[2].out = its[2].order

(***************************************************************************)
(* A dataset and a sampler in one program                                  *)
(***************************************************************************)

\* The keyword arguments and the length of the dataset of the joint runs.
JointKw == SetItem(EmptyDict, "duration", 1)
JointLength == 1

\* ds = BaseDataset(JointLength, duration=1) has been constructed; the
\* sampler is a sequential one over ds (object 1), built with
\* start_idx=1.  cfg.N is the length ds was constructed with; a traversal
\* takes the length ds has when it starts (SourceLen).
JointInit ==
    /\ shared = InitObject(<<>>, <<>>, JointLength, JointKw).shared
    /\ objs = InitObject(<<>>, <<>>, JointLength, JointKw).objs
    /\ lastSet = <<JointKw>>
    /\ own = <<SetItem(EmptyDict, "length", JointLength)>>
    /\ last = DidInit(JointLength, JointKw)
    /\ cfg = [variant |-> "seq", N |-> JointLength, R |-> 1,
              drop_last |-> FALSE, arg |-> {1}]
    /\ perm = Range(JointLength)
    /\ start_idx = EmptyDict
    /\ its = <<>>
    /\ serr = "none"

\* The dataset is replicated, read, written and measured while the sampler
\* is built and traversed.
JointNext ==
    \/ \E c \in DOMAIN objs : Replicate(c)
    \/ \E c \in DOMAIN objs, name \in AttrNames : Read(c, name)
    \/ \E c \in DOMAIN objs, name \in AttrNames, value \in Values : Write(c, name, value)
    \/ \E c \in DOMAIN objs : LenCall(c)
    \/ NewSampler(0)
    \/ Iter(0)
    \/ \E k \in DOMAIN its : NextItem(k)

SpecJoint == JointInit /\ [][JointNext]_vars

\* C20: a write of a shared key K changes the entry of K in the writer's
\* store and nothing else: every other entry of every store, the attributes
\* of every copy (length among them) and the start_idx and the traversals of
\* the sampler are as before; a write of any other name leaves every store
\* and the sampler as they were.
C20_WriteFrame ==
    [][last'.op = "write" =>
         \A v \in Values :
            Write(last'.obj, last'.name, v) =>
               /\ start_idx' = start_idx
               /\ its' = its
               /\ IF last'.name \in SHARED_KEYS
                  THEN /\ objs' = objs
                       /\ DOMAIN shared' = DOMAIN shared
                       /\ shared'[StoreOf(last'.obj)][last'.name] = v
                       /\ \A s \in DOMAIN shared : \A k \in SHARED_KEYS :
                             (s # StoreOf(last'.obj) \/ k # last'.name) =>
                                /\ (k \in DOMAIN shared'[s]) = (k \in DOMAIN shared[s])
                                /\ k \in DOMAIN shared[s] => shared'[s][k] = shared[s][k]
                  ELSE shared' = shared]_vars

\* C20 witness: a copy has just written sample_rate while the store holds
\* duration and transform, the other copy has a length of its own, and the
\* sampler is in its first traversal with start_idx = 1.
C20_Witness ==
    /\ last.op = "write"
    /\ last.name = "sample_rate"
    /\ Len(objs) = 2
    /\ shared[StoreOf(1)]["duration"] = 1
    /\ "transform" \in DOMAIN shared[StoreOf(1)]
    /\ LenOf(1) # LenOf(2)
    /\ 0 \in DOMAIN start_idx
    /\ start_idx[0] = 1
    /\ Len(its) >= 1

====
